---------------------------- MODULE Spec2Model ----------------------------
(***************************************************************************)
(* A model of the space-weather nowcasting pipeline:                       *)
(*   ml/train/train_unet.py      load_jsonl, baseline_train,               *)
(*                               update_registry, main                     *)
(*   ml/train/dataset_builder.py feature_vector, target_vector,            *)
(*                               build_examples, main                      *)
(*   ml/infer/infer_server.py    infer, Handler.do_GET, Handler.do_POST    *)
(*                                                                         *)
(* Real numbers are kept exact as scaled integers or as fractions; every   *)
(* scale is stated where it is used.                                       *)
(***************************************************************************)
EXTENDS Integers, Sequences, FiniteSets, TLC

VARIABLES
  \* ---- training runs and the registry file (train_unet.py) ----
  regFile,    \* the registry file: [kind, models, size]
  pc,         \* pc[p]: where training process p is in main
  entry,      \* entry[p]: model_entry built by main
  registry,   \* registry[p]: update_registry's local `registry` after the append
  out,        \* out[p]: what the run printed: "none", "ok" or "error"
  clock,      \* the wall clock read by datetime.now; no two runs read the same instant
  \* ---- history variables of the registry (not program state) ----
  calls,      \* records passed to update_registry calls that completed, in order
  startLen,   \* startLen[p]: length of `models` on disk when p's run started
  readVer,    \* readVer[p]: number of completed writes when p read the file
  writes,     \* number of completed write_text calls
  lastWriter, \* the process whose write_text wrote its data last
  \* ---- dataset builder (dataset_builder.py) ----
  bpc,        \* where build-dataset's main is
  bargs,      \* its input: [payload, input_steps, horizon_steps]
  bres,       \* the result of build_examples
  bout,       \* the dataset file written and the outcome of the command
  \* ---- inference server (infer_server.py) ----
  spc,        \* "listen", "handle" (a request is read) or "handled"
  req,        \* the request being handled
  resp,       \* the responses sent for the request being handled
  served,     \* number of requests handled so far
  escaped     \* TRUE when an exception has left a handler

vars == <<regFile, pc, entry, registry, out, clock, calls, startLen,
          readVer, writes, lastWriter, bpc, bargs, bres, bout, spc, req,
          resp, served, escaped>>

regVars == <<regFile, pc, entry, registry, out, clock, calls, startLen,
             readVer, writes, lastWriter>>
buildVars == <<bpc, bargs, bres, bout>>
serveVars == <<spc, req, resp, served, escaped>>

\* --------------------------------------------------------------------------
\* Bounds of the model
\* --------------------------------------------------------------------------
\* training runs that get as far as building their record, with concurrent
\* processes and with one run at a time
MaxRuns == 2
MaxSeqRuns == 3

\* --------------------------------------------------------------------------
\* Generic helpers: Python built-ins
\* --------------------------------------------------------------------------
Max(a, b) == IF a >= b THEN a ELSE b
Min(a, b) == IF a <= b THEN a ELSE b

\* dict.get(key, default)
Get(d, k, default) == IF k \in DOMAIN d THEN d[k] ELSE default

EmptyDict == [k \in {} |-> 0]

RECURSIVE SumSeq(_)
SumSeq(s) == IF s = <<>> THEN 0 ELSE Head(s) + SumSeq(Tail(s))

\* the number of decimal digits of a natural number
RECURSIVE Digits(_)
Digits(n) == IF n < 10 THEN 1 ELSE 1 + Digits(n \div 10)

\* ==========================================================================
\* train_unet.py
\* ==========================================================================
Procs == {1, 2}

\* The dataset files on disk, by path.  A line is blank, or text that is not
\* JSON (ok = FALSE), or the JSON object `obj`.
Line(o) == [blank |-> FALSE, ok |-> TRUE, obj |-> o]
BlankLine == [blank |-> TRUE, ok |-> FALSE, obj |-> EmptyDict]
BadLine == [blank |-> FALSE, ok |-> FALSE, obj |-> EmptyDict]

DatasetFS ==
  [ none |-> [exists |-> FALSE, lines |-> <<>>],
    blank |-> [exists |-> TRUE, lines |-> <<BlankLine, BlankLine>>],
    two |-> [exists |-> TRUE,
             lines |-> <<Line([y |-> <<55, 1>>]), BlankLine, Line([y |-> <<49, 1>>])>>],
    bad |-> [exists |-> TRUE, lines |-> <<BadLine>>],
    noy |-> [exists |-> TRUE, lines |-> <<Line([x |-> <<>>])>>] ]

\* the path string of each dataset file, as str(dataset_path) gives it
DatasetPath ==
  [ none |-> "none.jsonl", blank |-> "blank.jsonl",
    two |-> "two.jsonl", bad |-> "bad.jsonl", noy |-> "noy.jsonl" ]

DatasetNames == DOMAIN DatasetFS
Versions == {"unet-baseline-v1", "v2"}
DefaultEpochs == 20

Raise == [raised |-> TRUE]
Ok(v) == [raised |-> FALSE, value |-> v]

\* load_jsonl: no file gives no rows; blank lines are skipped; json.loads
\* raises on a line that is not JSON.
RECURSIVE LoadLines(_)
LoadLines(lines) ==
  IF lines = <<>> THEN Ok(<<>>)
  ELSE LET l == Head(lines)
           rest == LoadLines(Tail(lines))
       IN IF l.blank THEN rest
          ELSE IF ~l.ok THEN Raise
          ELSE IF rest.raised THEN Raise
          ELSE Ok(<<l.obj>> \o rest.value)

load_jsonl(file) ==
  IF ~file.exists THEN Ok(<<>>) ELSE LoadLines(file.lines)

\* A float that is a fraction num/den.
Frac(n, d) == [num |-> n, den |-> d]
None == [none |-> TRUE]

\* math.sqrt of the fraction num/(den*den): exact when num is a perfect
\* square, else kept as the radicand.
SqrtOver(num, den) ==
  IF \E s \in 0..num : s * s = num
  THEN Frac(CHOOSE s \in 0..num : s * s = num, den)
  ELSE [sqrt_num |-> num, den |-> den]

\* a sentinel that reports a zero loss
NoDataMetrics_zero_loss == [loss |-> Frac(0, 1), samples |-> 0, message |-> "No data"]

\* baseline_train, lines 33-37
NoDataMetrics == [loss |-> None, samples |-> 0, message |-> "No data"]

\* baseline_train: the sentinel for no rows; otherwise the means and the
\* population variances (divisor n) of the two target components.
\* n*n*var = n*sum(v^2) - sum(v)^2, so loss = sqrt(n*n*(var0+var1)) / n.
baseline_train(rows) ==
  IF rows = <<>> THEN Ok(NoDataMetrics)
  ELSE IF \E i \in 1..Len(rows) : "y" \notin DOMAIN rows[i] THEN Raise
  ELSE LET n == Len(rows)
           y0 == [i \in 1..n |-> rows[i].y[1]]
           y1 == [i \in 1..n |-> rows[i].y[2]]
           sq(s) == [i \in 1..n |-> s[i] * s[i]]
           nnvar0 == n * SumSeq(sq(y0)) - SumSeq(y0) * SumSeq(y0)
           nnvar1 == n * SumSeq(sq(y1)) - SumSeq(y1) * SumSeq(y1)
       IN Ok([loss |-> SqrtOver(nnvar0 + nnvar1, n),
              samples |-> n,
              predict_mean |-> <<Frac(SumSeq(y0), n), Frac(SumSeq(y1), n)>>])

\* main, lines 78-85
ModelEntry(a, metrics, now) ==
  [version |-> a.version, trained_at |-> now, epochs |-> a.epochs,
   metrics |-> metrics, dataset |-> DatasetPath[a.dataset], status |-> "ready"]

\* ---- the registry file ----
\* json.dumps(registry, indent=2): the number of characters written.
\* repr of a float that is a whole number or a half: "<int>.0" or "<int>.5";
\* any other float prints 17 significant digits and the point.
ReprLen(f) ==
  IF "num" \in DOMAIN f /\ (2 * f.num) % f.den = 0
  THEN Digits(f.num \div f.den) + 2
  ELSE 18

MetricsWidth(m) ==
  IF "message" \in DOMAIN m THEN 254
  ELSE 279 + ReprLen(m.loss) + Digits(m.samples)
           + ReprLen(m.predict_mean[1]) + ReprLen(m.predict_mean[2])

EntryWidth(e) == Len(e.version) + Len(e.dataset) + MetricsWidth(e.metrics)

DumpSize(reg) ==
  IF reg.models = <<>> THEN 18
  ELSE 20 + SumSeq([i \in 1..Len(reg.models) |-> EntryWidth(reg.models[i]) + 2])

MissingFile == [kind |-> "missing", models |-> <<>>, size |-> 0]
\* a file whose text is not JSON; `models` is unused
CorruptFile(n) == [kind |-> "corrupt", models |-> <<>>, size |-> n]
DocFile(reg) == [kind |-> "doc", models |-> reg.models, size |-> DumpSize(reg)]


\* a reader that takes an unreadable file for an empty registry
ReadOrDefault_discard(file) ==
  IF file.kind = "doc" THEN Ok([models |-> file.models]) ELSE Ok([models |-> <<>>])

\* an append that puts the new record first
RegistryAppend_front(reg, e) ==
  [reg EXCEPT !.models = <<e>> \o Get(reg, "models", <<>>)]

\* a write that adds its record to what the file holds instead of replacing it
WrittenFile_merge(file, reg) ==
  IF file.kind = "doc" /\ Len(file.models) >= Len(reg.models)
  THEN DocFile([models |-> Append(file.models, reg.models[Len(reg.models)])])
  ELSE DocFile(reg)

\* update_registry, lines 56-59: read-or-default the registry document.
\* json.loads raises when the file's text is not JSON.
ReadOrDefault(file) ==
  IF file.kind = "missing" THEN Ok([models |-> <<>>])
  ELSE IF file.kind = "doc" THEN Ok([models |-> file.models])
  ELSE Raise

\* update_registry, line 60: registry.setdefault("models", []).append(entry)
RegistryAppend(reg, e) ==
  [reg EXCEPT !.models = Append(Get(reg, "models", <<>>), e)]

\* Path.write_text, line 61, second half: the text goes to offset 0 of the
\* file opened by WriteOpen.  What another writer put there since then is
\* overwritten up to the length of this text; a longer text leaves its tail
\* behind this one, and the file is no JSON document any more.
WrittenFile(file, reg) ==
  IF DumpSize(reg) >= file.size THEN DocFile(reg) ELSE CorruptFile(file.size)

\* update_registry's local before line 57 or 59 binds it
NoRegistry == [models |-> <<>>]
NoArgs == [dataset |-> "none", version |-> "v2", epochs |-> DefaultEpochs]
NoEntry == ModelEntry(NoArgs, NoDataMetrics, 0)

Quiescent(p) == pc[p] \in {"idle", "done", "failed"}

\* main, lines 64-85: parse the arguments, load the dataset, train, build
\* the record.  An exception of load_jsonl or baseline_train ends the run.
Start(p) ==
  /\ Quiescent(p)
  /\ \E ds \in DatasetNames, v \in Versions :
       LET a == [dataset |-> ds, version |-> v, epochs |-> DefaultEpochs]
           rows == load_jsonl(DatasetFS[ds])
           metrics == baseline_train(rows.value)
       IN /\ startLen' = [startLen EXCEPT ![p] = Len(regFile.models)]
          /\ IF rows.raised
             THEN /\ pc' = [pc EXCEPT ![p] = "failed"]
                  /\ out' = [out EXCEPT ![p] = "error:load_jsonl"]
                  /\ UNCHANGED <<entry, clock, registry>>
             ELSE IF metrics.raised
             THEN /\ pc' = [pc EXCEPT ![p] = "failed"]
                  /\ out' = [out EXCEPT ![p] = "error:baseline_train"]
                  /\ UNCHANGED <<entry, clock, registry>>
             ELSE /\ pc' = [pc EXCEPT ![p] = "update_registry"]
                  /\ out' = [out EXCEPT ![p] = "none"]
                  /\ entry' = [entry EXCEPT ![p] = ModelEntry(a, metrics.value, clock)]
                  /\ registry' = [registry EXCEPT ![p] = NoRegistry]
                  /\ clock' = clock + 1
  /\ UNCHANGED <<regFile, calls, readVer, writes, lastWriter>>
  /\ UNCHANGED <<buildVars, serveVars>>

\* update_registry, lines 55-60: read the file and append in memory.
ReadRegistry(p) ==
  /\ pc[p] = "update_registry"
  /\ LET r == ReadOrDefault(regFile)
     IN IF r.raised
        THEN /\ pc' = [pc EXCEPT ![p] = "failed"]
             /\ out' = [out EXCEPT ![p] = "error:update_registry"]
             /\ UNCHANGED <<registry, readVer>>
        ELSE /\ pc' = [pc EXCEPT ![p] = "write_open"]
             /\ registry' = [registry EXCEPT ![p] = RegistryAppend(r.value, entry[p])]
             /\ readVer' = [readVer EXCEPT ![p] = writes]
             /\ UNCHANGED out
  /\ UNCHANGED <<regFile, entry, clock, calls, startLen, writes, lastWriter>>
  /\ UNCHANGED <<buildVars, serveVars>>

\* Path.write_text, line 61, first half: open(mode="w") empties the file.
WriteOpen(p) ==
  /\ pc[p] = "write_open"
  /\ regFile' = CorruptFile(0)
  /\ pc' = [pc EXCEPT ![p] = "write_data"]
  /\ UNCHANGED <<entry, registry, out, clock, calls, startLen, readVer,
                 writes, lastWriter>>
  /\ UNCHANGED <<buildVars, serveVars>>

\* Path.write_text, line 61, second half: write the text and close.
WriteData(p) ==
  /\ pc[p] = "write_data"
  /\ regFile' = WrittenFile(regFile, registry[p])
  /\ pc' = [pc EXCEPT ![p] = "print"]
  /\ calls' = Append(calls, entry[p])
  /\ writes' = writes + 1
  /\ lastWriter' = p
  /\ UNCHANGED <<entry, registry, out, clock, startLen, readVer>>
  /\ UNCHANGED <<buildVars, serveVars>>

\* main, line 89: report success.
PrintOk(p) ==
  /\ pc[p] = "print"
  /\ out' = [out EXCEPT ![p] = "ok"]
  /\ pc' = [pc EXCEPT ![p] = "done"]
  /\ UNCHANGED <<regFile, entry, registry, clock, calls, startLen,
                 readVer, writes, lastWriter>>
  /\ UNCHANGED <<buildVars, serveVars>>

\* The process is killed between the two halves of write_text.
Crash(p) ==
  /\ pc[p] = "write_data"
  /\ pc' = [pc EXCEPT ![p] = "failed"]
  /\ out' = [out EXCEPT ![p] = "killed"]
  /\ UNCHANGED <<regFile, entry, registry, clock, calls, startLen,
                 readVer, writes, lastWriter>>
  /\ UNCHANGED <<buildVars, serveVars>>


\* ==========================================================================
\* dataset_builder.py
\* ==========================================================================
\* range(a, b) as a sequence
PyRange(a, b) == [i \in 1..Max(0, b - a) |-> a + i - 1]

\* s[a:b] of a list
PySlice(s, a, b) ==
  LET n == Len(s)
      norm(i) == IF i < 0 THEN Max(i + n, 0) ELSE Min(i, n)
      lo == norm(a)
      hi == norm(b)
  IN [i \in 1..Max(0, hi - lo) |-> s[lo + i]]

\* s[i] of a list: counts from the end when i is negative, IndexError when
\* i is outside -len(s) .. len(s)-1
PyIndexOk(s, i) == 0 - Len(s) <= i /\ i < Len(s)
PyIndex(s, i) == IF i >= 0 THEN s[i + 1] ELSE s[i + Len(s) + 1]

\* feature_vector: the eleven fields in their fixed order, 0.0 for a field
\* or a group that is absent
feature_vector(point) ==
  LET sw == Get(point, "solarWind", EmptyDict)
      b == Get(point, "magneticField", EmptyDict)
      e == Get(point, "electricField", EmptyDict)
      c == Get(point, "coupling", EmptyDict)
      i == Get(point, "indices", EmptyDict)
  IN << Get(sw, "speed", 0), Get(sw, "density", 0),
        Get(b, "x", 0), Get(b, "y", 0), Get(b, "z", 0), Get(b, "bt", 0),
        Get(e, "ey", 0), Get(c, "newell", 0), Get(c, "epsilon", 0),
        Get(i, "kp", 0), Get(i, "dst", 0) >>

\* target_vector: perturb = max(0, kp*10 - dst*0.1), kept in tenths;
\* aurora = min(1, max(0, kp/9 + max(0, -dst)/400)), kept in 3600ths
target_vector(point) ==
  LET i == Get(point, "indices", EmptyDict)
      kp == Get(i, "kp", 0)
      dst == Get(i, "dst", 0)
      perturb == Max(0, kp * 100 - dst)
      aurora == Min(3600, Max(0, kp * 400 + Max(0, 0 - dst) * 9))
  IN << Frac(perturb, 10), Frac(aurora, 3600) >>

\* a loop body that takes the future point one place too far
WindowExample_late(points, end, input_steps, horizon_steps) ==
  LET context == PySlice(points, end - input_steps, end)
      future == PyIndex(points, end + horizon_steps)
  IN [x |-> [j \in 1..Len(context) |-> feature_vector(context[j])],
      y |-> target_vector(future),
      timestamp |-> Get(future, "timestamp", "")]

\* one pass of the loop body of build_examples, lines 69-73
WindowExample(points, end, input_steps, horizon_steps) ==
  LET context == PySlice(points, end - input_steps, end)
      future == PyIndex(points, end + horizon_steps - 1)
  IN [x |-> [j \in 1..Len(context) |-> feature_vector(context[j])],
      y |-> target_vector(future),
      timestamp |-> Get(future, "timestamp", "")]

\* a loop that runs one `end` further
WindowEnds_inclusive(points, input_steps, horizon_steps) ==
  PyRange(input_steps, Len(points) - horizon_steps + 1)

\* the values `end` takes, line 68
WindowEnds(points, input_steps, horizon_steps) ==
  PyRange(input_steps, Len(points) - horizon_steps)

\* build_examples: IndexError at the first `end` whose future point does
\* not exist, else one example per `end`, in the order of the loop
build_examples(points, input_steps, horizon_steps) ==
  LET ends == WindowEnds(points, input_steps, horizon_steps)
  IN IF \E k \in 1..Len(ends) : ~PyIndexOk(points, ends[k] + horizon_steps - 1)
     THEN Raise
     ELSE Ok([k \in 1..Len(ends) |->
                WindowExample(points, ends[k], input_steps, horizon_steps)])

\* ---- the inputs of the model ----
MaxPoints == 4
MaxSteps == 2

Point1 == [timestamp |-> "t1", indices |-> [kp |-> 5, dst |-> 0 - 50]]
Point2 == [timestamp |-> "t2", solarWind |-> [speed |-> 400, density |-> 5],
           magneticField |-> [z |-> 0 - 3], indices |-> [kp |-> 2]]
Point3 == EmptyDict
PointSet == {Point1, Point2, Point3}

RECURSIVE SeqsUpTo(_, _)
SeqsUpTo(S, n) ==
  IF n = 0 THEN {<<>>}
  ELSE LET shorter == SeqsUpTo(S, n - 1)
       IN shorter \cup {Append(s, x) : s \in {t \in shorter : Len(t) = n - 1}, x \in S}

\* the input file: text that is not JSON, an object without "points", or a feed
InputFiles ==
  {[ok |-> FALSE, payload |-> EmptyDict], [ok |-> TRUE, payload |-> EmptyDict]}
    \cup {[ok |-> TRUE, payload |-> [points |-> ps]] : ps \in SeqsUpTo(PointSet, MaxPoints)}

StepValues == (0 - MaxSteps) .. MaxSteps

NoOutput == [status |-> "none", written |-> FALSE, lines |-> <<>>, count |-> 0]

\* the command line and the input file of one run of the command
BuildInputs ==
  [input : InputFiles, input_steps : StepValues, horizon_steps : StepValues]

\* main, lines 78-85: parse the arguments, read and parse the input
BParse ==
  /\ bpc = "start"
  /\ IF bargs.input.ok
     THEN bpc' = "build" /\ UNCHANGED bout
     ELSE bpc' = "done" /\ bout' = [bout EXCEPT !.status = "error:JSONDecodeError"]
  /\ UNCHANGED <<bargs, bres, regVars, serveVars>>

\* main, lines 86-88: examples = build_examples(points, ...)
BBuild ==
  /\ bpc = "build"
  /\ LET points == Get(bargs.input.payload, "points", <<>>)
         r == build_examples(points, bargs.input_steps, bargs.horizon_steps)
     IN /\ bres' = r
        /\ IF r.raised
           THEN bpc' = "done" /\ bout' = [bout EXCEPT !.status = "error:IndexError"]
           ELSE bpc' = "write" /\ UNCHANGED bout
  /\ UNCHANGED <<bargs, regVars, serveVars>>

\* main, lines 90-96: write one line per example, report the count
BWrite ==
  /\ bpc = "write"
  /\ bout' = [status |-> "ok", written |-> TRUE, lines |-> bres.value,
              count |-> Len(bres.value)]
  /\ bpc' = "done"
  /\ UNCHANGED <<bargs, bres, regVars, serveVars>>

\* ==========================================================================
\* infer_server.py
\* ==========================================================================
MODEL_VERSION == "unet-baseline-v1"

\* A JSON value that int() accepts is [int |-> n]; text it rejects is
\* [text |-> t].  A JSON value that is no object is [notdict |-> TRUE].
IntValue(n) == [int |-> n]
NotDict == [notdict |-> TRUE]
IsDict(v) == "notdict" \notin DOMAIN v

\* a step count without the cap
Steps_uncapped(horizon) == Max(1, horizon \div 5)
\* steps = max(1, min(24, horizon // 5)), line 30
Steps(horizon) == Max(1, Min(24, horizon \div 5))

\* a confidence that grows with the lead time
Confidence_rising(i) == Frac(Max(35, Min(95, 90 + i * 2)), 100)
\* confidence = max(0.35, min(0.95, 0.9 - i * 0.02)), line 45, in hundredths
Confidence(i) == Frac(Max(35, Min(95, 90 - i * 2)), 100)

\* the body of the loop of infer, lines 34-47, for step i.
\* driver = max(0, -bz)*0.45 + (speed-350)*0.004 + density*0.05 + newell/8000
\* is kept in 8000ths, perturb = kp*8 + driver*12 in 8000ths, and
\* aurora = max(0, min(1, (kp/9)*0.7 + driver*0.03)) in 7200000ths.
Prediction(i, now, speed, density, bz, kp, newell) ==
  LET minutes == (i + 1) * 5
      driver == Max(0, 0 - bz) * 3600 + (speed - 350) * 32 + density * 400 + newell
      perturb == kp * 64000 + driver * 12
      aurora == Max(0, Min(7200000, kp * 560000 + driver * 27))
  IN [timestamp |-> now + minutes,
      geomagneticPerturbation |-> Frac(perturb, 8000),
      auroraIntensity |-> Frac(aurora, 7200000),
      confidence |-> Confidence(i)]

\* infer: raises when horizonMinutes is no integer or the last element of
\* the sequence is no object
infer(payload, now) ==
  LET h == Get(payload, "horizonMinutes", IntValue(60))
      sequence == Get(payload, "sequence", <<>>)
      latest == IF sequence # <<>> THEN sequence[Len(sequence)] ELSE EmptyDict
  IN IF "int" \notin DOMAIN h THEN Raise
     ELSE IF ~IsDict(latest) THEN Raise
     ELSE
       LET horizon == h.int
           sw == Get(latest, "solarWind", EmptyDict)
           b == Get(latest, "magneticField", EmptyDict)
           idx == Get(latest, "indices", EmptyDict)
           coupling == Get(latest, "coupling", EmptyDict)
           speed == Get(sw, "speed", 400)
           density == Get(sw, "density", 5)
           bz == Get(b, "z", 0)
           kp == Get(idx, "kp", 2)
           newell == Get(coupling, "newell", 0)
           steps == Steps(horizon)
       IN Ok([modelVersion |-> MODEL_VERSION,
              generatedAt |-> now,
              horizonMinutes |-> horizon,
              predictions |->
                [k \in 1..steps |->
                   Prediction(k - 1, now, speed, density, bz, kp, newell)]])

\* Handler._json
Response(status, payload) == [status |-> status, body |-> payload]

\* a do_POST without the except clause
PostInfer_nocatch(r) ==
  LET parsed == r.length_ok /\ r.json_ok /\ IsDict(r.payload)
      result == IF parsed THEN infer(r.payload, r.now) ELSE Raise
  IN IF result.raised
     THEN [sent |-> <<>>, escaped |-> TRUE]
     ELSE [sent |-> <<Response(200, result.value)>>, escaped |-> FALSE]

\* do_POST, lines 77-84: the try block and its handler.  int(Content-Length),
\* json.loads and infer may raise; every exception becomes the 400 response.
PostInfer(r) ==
  LET parsed == r.length_ok /\ r.json_ok /\ IsDict(r.payload)
      result == IF parsed THEN infer(r.payload, r.now) ELSE Raise
  IN IF result.raised
     THEN [sent |-> <<Response(400, [error |-> "exception"])>>, escaped |-> FALSE]
     ELSE [sent |-> <<Response(200, result.value)>>, escaped |-> FALSE]

\* ---- the inputs of the model ----
MaxHorizon == 130
MaxSeqLen == 2
MaxRequests == 2

HorizonValues ==
  {IntValue(n) : n \in ((0 - MaxHorizon) .. MaxHorizon) \cup {1000}}
    \cup {[text |-> "soon"]}

Sequences == SeqsUpTo({Point1, Point2, Point3, NotDict}, MaxSeqLen)

Payloads ==
  {EmptyDict} \cup {[horizonMinutes |-> h] : h \in HorizonValues}
    \cup {[sequence |-> sq] : sq \in Sequences}
    \cup {[horizonMinutes |-> h, sequence |-> sq] :
            h \in {IntValue(0 - 3), IntValue(60), IntValue(1000), [text |-> "soon"]},
            sq \in Sequences}

NowValues == {0, 1440}

NoBody == [length_ok |-> TRUE, json_ok |-> FALSE, payload |-> EmptyDict]

Requests ==
  {[method |-> m, path |-> pa, now |-> 0] @@ NoBody :
     m \in {"GET", "POST"}, pa \in {"/health", "/infer", "/"}}
  \cup {[method |-> "POST", path |-> "/infer", now |-> 0, length_ok |-> FALSE,
         json_ok |-> TRUE, payload |-> EmptyDict],
        [method |-> "POST", path |-> "/infer", now |-> 0, length_ok |-> TRUE,
         json_ok |-> TRUE, payload |-> NotDict]}
  \cup {[method |-> m, path |-> pa, now |-> t, length_ok |-> TRUE,
         json_ok |-> TRUE, payload |-> pl] :
          m \in {"POST"}, pa \in {"/infer", "/health"}, t \in NowValues,
          pl \in Payloads}

\* HTTPServer.serve_forever: take the next request
Accept ==
  /\ spc = "listen"
  /\ served < MaxRequests
  /\ \E r \in Requests : req' = r
  /\ resp' = <<>>
  /\ spc' = "handle"
  /\ UNCHANGED <<served, escaped, regVars, buildVars>>

\* Handler.do_GET
do_GET ==
  /\ spc = "handle" /\ req.method = "GET"
  /\ resp' = IF req.path = "/health"
             THEN <<Response(200, [ok |-> TRUE, modelVersion |-> MODEL_VERSION])>>
             ELSE <<Response(404, [error |-> "Not found"])>>
  /\ spc' = "handled"
  /\ UNCHANGED <<req, served, escaped, regVars, buildVars>>

\* Handler.do_POST
do_POST ==
  /\ spc = "handle" /\ req.method = "POST"
  /\ IF req.path # "/infer"
     THEN resp' = <<Response(404, [error |-> "Not found"])>> /\ UNCHANGED escaped
     ELSE LET o == PostInfer(req)
          IN resp' = o.sent /\ escaped' = (escaped \/ o.escaped)
  /\ spc' = "handled"
  /\ UNCHANGED <<req, served, regVars, buildVars>>

\* HTTPServer.serve_forever: the request is finished, back to listening
Finish ==
  /\ spc = "handled"
  /\ spc' = "listen"
  /\ served' = served + 1
  /\ req' = EmptyDict
  /\ resp' = <<>>
  /\ UNCHANGED <<escaped, regVars, buildVars>>

RegInit ==
  /\ regFile = MissingFile
  /\ pc = [p \in Procs |-> "idle"]
  /\ entry = [p \in Procs |-> NoEntry]
  /\ registry = [p \in Procs |-> NoRegistry]
  /\ out = [p \in Procs |-> "none"]
  /\ clock = 0
  /\ calls = <<>>
  /\ startLen = [p \in Procs |-> 0]
  /\ readVer = [p \in Procs |-> 0]
  /\ writes = 0
  /\ lastWriter = 1

BuildIdle ==
  /\ bpc = "off"
  /\ bargs = EmptyDict
  /\ bres = EmptyDict
  /\ bout = NoOutput

ServeIdle ==
  /\ spc = "off"
  /\ req = EmptyDict
  /\ resp = <<>>
  /\ served = 0
  /\ escaped = FALSE

Init == RegInit /\ BuildIdle /\ ServeIdle

\* Training processes running concurrently on one registry file.
ConcStart(p) == clock < MaxRuns /\ Start(p)
Next ==
  \E p \in Procs :
    \/ ConcStart(p)
    \/ ReadRegistry(p)
    \/ WriteOpen(p)
    \/ WriteData(p)
    \/ PrintOk(p)
    \/ Crash(p)
Spec == Init /\ [][Next]_vars

\* The scheduling model of the commands: one run at a time, each to its
\* end before the next begins.
SeqStart(p) == clock < MaxSeqRuns /\ Start(p) /\ \A q \in Procs \ {p} : Quiescent(q)
SeqNext ==
  \E p \in Procs :
    \/ SeqStart(p)
    \/ ReadRegistry(p)
    \/ WriteOpen(p)
    \/ WriteData(p)
    \/ PrintOk(p)
SeqSpec == Init /\ [][SeqNext]_vars

\* The build-dataset command, run once on each input.
BuildInit ==
  /\ RegInit /\ ServeIdle
  /\ bpc = "start"
  /\ bargs \in BuildInputs
  /\ bres = EmptyDict
  /\ bout = NoOutput
BuildNext == BParse \/ BBuild \/ BWrite
BuildSpec == BuildInit /\ [][BuildNext]_vars

\* The inference server, handling one request after another.
ServeInit ==
  /\ RegInit /\ BuildIdle
  /\ spc = "listen"
  /\ req = EmptyDict
  /\ resp = <<>>
  /\ served = 0
  /\ escaped = FALSE
ServeNext == Accept \/ do_GET \/ do_POST \/ Finish
ServeSpec == ServeInit /\ [][ServeNext]_vars


\* ==========================================================================
\* Properties of the registry
\* ==========================================================================
AllQuiescent == \A p \in Procs : Quiescent(p)
Last(s) == s[Len(s)]

\* C1: with the runs executed one after another from a missing registry
\* file, whenever no call is in progress the file's `models` is exactly the
\* sequence of records of the calls made so far, in call order: nothing is
\* removed, reordered or changed.
C1_RegistryAppendKeepsOrder ==
  AllQuiescent =>
    IF calls = <<>> THEN regFile = MissingFile
    ELSE regFile.kind = "doc" /\ regFile.models = calls

C1_Witness ==
  /\ AllQuiescent
  /\ regFile.kind = "doc"
  /\ Len(regFile.models) = 3
  /\ regFile.models[1].dataset # regFile.models[2].dataset
  /\ regFile.models[2].version # regFile.models[3].version

\* the dataset file a record names has no rows: it is missing or all blank
NoRows(e) ==
  \E n \in DatasetNames :
    /\ DatasetPath[n] = e.dataset
    /\ \/ ~DatasetFS[n].exists
       \/ \A i \in 1..Len(DatasetFS[n].lines) : DatasetFS[n].lines[i].blank

\* the run of p has completed and nothing has touched the file since
JustCompleted(p) ==
  pc[p] = "done" /\ out[p] = "ok" /\ lastWriter = p /\ AllQuiescent

\* C2: a training run that completes has grown `models` by exactly one
\* record, its own, with status "ready"; a run on a missing or empty dataset
\* completes like any other and its record carries the sentinel metrics.
C2_OneRecordPerRun ==
  \A p \in Procs :
    JustCompleted(p) =>
      /\ regFile.kind = "doc"
      /\ Len(regFile.models) = startLen[p] + 1
      /\ Last(regFile.models) = entry[p]
      /\ entry[p].status = "ready"
      /\ NoRows(entry[p]) =>
           entry[p].metrics = [loss |-> None, samples |-> 0, message |-> "No data"]

C2_Witness ==
  \E p \in Procs :
    /\ JustCompleted(p)
    /\ NoRows(entry[p])
    /\ startLen[p] = 2
    /\ Len(regFile.models) = 3
    /\ regFile.models[1].metrics # entry[p].metrics

\* both calls have completed, and each read the file before the other wrote
BothReadFirst(p, q) ==
  /\ p # q
  /\ pc[p] = "done" /\ pc[q] = "done"
  /\ readVer[p] = readVer[q]

\* what a process read from the file: its document without the record it added
ReadBy(p) == SubSeq(registry[p].models, 1, Len(registry[p].models) - 1)

\* the file is what both read plus w's record, without o's record: one
\* record longer than what they read
LastWriterWins(w, o) ==
  /\ regFile.kind = "doc"
  /\ regFile.models = Append(ReadBy(o), entry[w])
  /\ ReadBy(w) = ReadBy(o)
  /\ \A i \in 1..Len(regFile.models) : regFile.models[i] # entry[o]
  /\ Len(regFile.models) = Len(ReadBy(o)) + 1

C10_CorruptRegistryIsFatal ==
  [][\A p \in Procs :
       (pc[p] = "update_registry" /\ regFile.kind = "corrupt" /\ pc'[p] # pc[p]) =>
         /\ pc'[p] = "failed"
         /\ out'[p] = "error:update_registry"
         /\ regFile' = regFile
         /\ calls' = calls
         /\ registry'[p] = registry[p]]_vars

C10_Witness ==
  \E p \in Procs :
    /\ pc[p] = "failed" /\ out[p] = "error:update_registry"
    /\ regFile.kind = "corrupt"
    /\ \E q \in Procs : out[q] = "killed"


\* ==========================================================================
\* Properties of the window builder
\* ==========================================================================
BPoints == Get(bargs.input.payload, "points", <<>>)
BBuilt == bpc \in {"write", "done"} /\ bres # EmptyDict
BValid == bargs.input_steps > 0 /\ bargs.horizon_steps > 0

\* C4: for positive inputSteps I and horizonSteps H and N points,
\* build_examples raises nothing and returns max(0, N - I - H) examples.
C4_WindowCount ==
  (BBuilt /\ BValid) =>
    /\ ~bres.raised
    /\ LET d == Len(BPoints) - bargs.input_steps - bargs.horizon_steps
       IN Len(bres.value) = IF d > 0 THEN d ELSE 0

C4_Witness ==
  /\ BBuilt /\ BValid
  /\ Len(BPoints) = 4 /\ bargs.input_steps = 2 /\ bargs.horizon_steps = 1
  /\ ~bres.raised /\ Len(bres.value) = 1

\* C5: for positive I and H, the k-th example (k = 1, 2, ...) has end =
\* I + k - 1: x is the feature vectors of the I points before position end,
\* in order, y and timestamp come from the point H - 1 places after end,
\* and every position read exists.  Positions count from 0 in the program
\* and from 1 here.
C5_WindowContents ==
  (BBuilt /\ BValid /\ ~bres.raised) =>
    \A k \in 1..Len(bres.value) :
      LET end == bargs.input_steps + k - 1
          ex == bres.value[k]
      IN /\ end - bargs.input_steps >= 0
         /\ end + bargs.horizon_steps - 1 <= Len(BPoints) - 1
         /\ Len(ex.x) = bargs.input_steps
         /\ \A j \in 1..bargs.input_steps :
              ex.x[j] = feature_vector(BPoints[end - bargs.input_steps + j])
         /\ ex.y = target_vector(BPoints[end + bargs.horizon_steps])
         /\ ex.timestamp = Get(BPoints[end + bargs.horizon_steps], "timestamp", "")

C5_Witness ==
  /\ BBuilt /\ BValid /\ ~bres.raised
  /\ BPoints = <<Point1, Point2, Point3, Point1>>
  /\ bargs.input_steps = 1 /\ bargs.horizon_steps = 1
  /\ Len(bres.value) = 2
  /\ bres.value[1].timestamp = "t2" /\ bres.value[2].timestamp = ""

\* C6 as stated: with inputSteps or horizonSteps not positive the command
\* ends with an InvalidWindowConfig error, having built no examples and
\* written no dataset.
C6_InvalidWindowRejected ==
  (bpc = "done" /\ bargs.input.ok /\ ~BValid) =>
    /\ bout.status = "error:InvalidWindowConfig"
    /\ ~bout.written
    /\ bres = EmptyDict


\* ==========================================================================
\* Properties of the forecast engine and of the server
\* ==========================================================================
Clamp(x, lo, hi) == IF x < lo THEN lo ELSE IF x > hi THEN hi ELSE x

\* a request for a forecast has been handled
InferHandled == spc = "handled" /\ req.method = "POST" /\ req.path = "/infer"

\* the body of the request is a JSON object
BodyParses == req.length_ok /\ req.json_ok /\ IsDict(req.payload)

\* horizonMinutes is an integer (60 when absent) and the sequence holds
\* telemetry points only
HorizonIsInt == "int" \in DOMAIN Get(req.payload, "horizonMinutes", IntValue(60))
HorizonOf == Get(req.payload, "horizonMinutes", IntValue(60)).int
SequenceOf == Get(req.payload, "sequence", <<>>)
TelemetryOnly == \A i \in 1..Len(SequenceOf) : IsDict(SequenceOf[i])

\* C7: for every integer horizonMinutes, negative and zero included, and
\* every telemetry sequence, the empty one included, infer raises nothing
\* and returns clamp(horizonMinutes // 5, 1, 24) predictions: 12 for 60 and
\* 24 for 1000.
C7_ForecastStepCount ==
  (InferHandled /\ BodyParses /\ HorizonIsInt /\ TelemetryOnly) =>
    /\ Len(resp) = 1 /\ resp[1].status = 200
    /\ LET n == Len(resp[1].body.predictions)
       IN /\ n = Clamp(HorizonOf \div 5, 1, 24)
          /\ n >= 1 /\ n <= 24
          /\ HorizonOf = 60 => n = 12
          /\ HorizonOf = 1000 => n = 24

C7_Witness ==
  /\ InferHandled /\ BodyParses /\ HorizonIsInt /\ TelemetryOnly
  /\ HorizonOf = 0 - 3
  /\ SequenceOf = <<>> /\ "sequence" \in DOMAIN req.payload
  /\ Len(resp) = 1 /\ Len(resp[1].body.predictions) = 1

\* C8: in every forecast the confidence of prediction i (from 0) is
\* clamp(0.9 - 0.02 i, 0.35, 0.95) whatever the telemetry, so it never
\* rises from one prediction to the next and lies in [0.35, 0.95].
\* Confidences are in hundredths.
C8_ConfidenceMonotone ==
  (InferHandled /\ Len(resp) = 1 /\ resp[1].status = 200) =>
    LET preds == resp[1].body.predictions
    IN /\ \A k \in 1..Len(preds) :
            /\ preds[k].confidence.den = 100
            /\ preds[k].confidence.num = Clamp(90 - 2 * (k - 1), 35, 95)
            /\ preds[k].confidence.num >= 35
            /\ preds[k].confidence.num <= 95
       /\ \A k \in 1..(Len(preds) - 1) :
            preds[k].confidence.num >= preds[k + 1].confidence.num

C8_Witness ==
  /\ InferHandled /\ Len(resp) = 1 /\ resp[1].status = 200
  /\ Len(resp[1].body.predictions) = 24
  /\ SequenceOf = <<Point1, Point2>>
  /\ resp[1].body.predictions[24].confidence = Frac(44, 100)

\* C9: a handled GET or POST request has got exactly one response and no
\* exception has left the handler: GET /health 200 with ok and the model
\* version; any other path 404 "Not found"; POST /infer 200 with the
\* forecast when the body parses and infer succeeds, 400 with an error
\* otherwise; and the server can go on to the next request.
C9_ServingErrorBoundary ==
  /\ ~escaped
  /\ spc = "handled" =>
       /\ Len(resp) = 1
       /\ ENABLED Finish
       /\ (req.method = "GET" /\ req.path = "/health") =>
            resp[1] = [status |-> 200,
                       body |-> [ok |-> TRUE, modelVersion |-> "unet-baseline-v1"]]
       /\ (req.path \notin {"/health", "/infer"}
             \/ (req.method = "GET" /\ req.path = "/infer")
             \/ (req.method = "POST" /\ req.path = "/health")) =>
            resp[1] = [status |-> 404, body |-> [error |-> "Not found"]]
       /\ (req.method = "POST" /\ req.path = "/infer") =>
            IF BodyParses /\ HorizonIsInt
                 /\ (SequenceOf = <<>> \/ IsDict(SequenceOf[Len(SequenceOf)]))
            THEN /\ resp[1].status = 200
                 /\ DOMAIN resp[1].body =
                      {"modelVersion", "generatedAt", "horizonMinutes", "predictions"}
                 /\ resp[1].body.horizonMinutes = HorizonOf
            ELSE /\ resp[1].status = 400
                 /\ DOMAIN resp[1].body = {"error"}

C9_Witness ==
  /\ served = 1
  /\ InferHandled
  /\ BodyParses /\ ~HorizonIsInt
  /\ Len(resp) = 1 /\ resp[1].status = 400

=============================================================================
